---- MODULE Spec2Model ----
(***************************************************************************)
(* Search API service (services/search/src/search_api.py).                 *)
(*                                                                         *)
(* Text values (content, query, id) are sequences of one-character         *)
(* strings, so that lower(), split() and the substring test are computed.  *)
(* An Optional value is a sequence of length 0 (None) or 1.                *)
(* A metadata mapping is a function from keys to values.                   *)
(***************************************************************************)
EXTENDS Integers, Sequences, FiniteSets, TLC

VARIABLES
    SEARCH_BACKEND,   \* module global, line 32
    OPENSEARCH_URL,   \* module global, line 33
    memory_store,     \* _memory_store: the dict as a sequence in insertion order
    fts_table,        \* TRUE once documents_fts exists in the database file
    documents_fts,    \* rows of documents_fts in rowid order
    request,          \* the request being answered
    response,         \* the answer it produced
    insert_order,     \* history: resolved ids in order of their first upsert
    last_upsert,      \* history: resolved id -> the last document upserted under it
    task,             \* the /upsert handler that is running, statement by statement
    pending,          \* the rows as the running upsert's connection sees them
    open_conns,       \* number of SQLite connections that are open
    reader            \* a /query or /stats request running beside the upsert

\* the state of statement-level execution
stepvars == <<task, pending, open_conns, reader>>

vars == <<SEARCH_BACKEND, OPENSEARCH_URL, memory_store, fts_table,
          documents_fts, request, response, insert_order, last_upsert,
          task, pending, open_conns, reader>>

----------------------------------------------------------------------------
(* Bounds and input sets *)

MaxBatch == 2       \* longest documents list of one /upsert request
MaxLimit == 2       \* limits range over -MaxLimit..MaxLimit and None
MaxRank  == 2       \* the engine's rank ranges over -MaxRank..-1

DefaultLimit == 10  \* SearchRequest.limit default and the `or 10` fallback

Min(a, b) == IF a <= b THEN a ELSE b
Max(a, b) == IF a >= b THEN a ELSE b

NoMeta   == [k \in {} |-> ""]
UserMeta == [k \in {"indexed_at"} |-> "user"]

ExplicitIds == { <<"d", "1">> }
Contents    == { <<"a", " ", "B">>, <<"a", "b">> }
Metas       == { NoMeta, UserMeta }

\* values the request model lets through (documents: List[Dict[str, Any]])
\* that are not what the backends expect
ListContent == <<"[list]">>                  \* a content that is a list, not a str
StrMetadata == [k \in {"<str>"} |-> "x"]     \* a metadata that is the str "x", not a dict

IsStr(content)  == content # ListContent
IsMapping(meta) == meta # StrMetadata

\* a document of an UpsertRequest; id = <<>> stands for a missing, None or
\* empty id, which `doc.get("id") or ...` treats alike
Docs == [id : ExplicitIds \cup {<<>>}, content : Contents, metadata : Metas]

Batches == UNION { [1..n -> Docs] : n \in 0..MaxBatch }

Queries == { <<>>, <<" ">>, <<"a">>, <<"A">>, <<"a", "b">>, <<"a", " ", "b">>,
             <<"A", " ", "z">>, <<"a", "B", " ", "a">>, <<"b", " ", "b">> }

Limits == { <<>> } \cup { <<n>> : n \in (0 - MaxLimit)..MaxLimit }

RankValues == (0 - MaxRank)..(0 - 1)

\* os.getenv("SEARCH_BACKEND"): <<>> is an unset variable
BackendEnv == { <<>>, <<"memory">>, <<"SQLite">>, <<"opensearch">>, <<"bogus">> }
UrlEnv     == { <<>>, <<"http://os:9200">> }

\* the environments the service is started in; OPENSEARCH_URL is read only
\* next to SEARCH_BACKEND == "opensearch", so it is left unset elsewhere
Environments ==
    { e \in BackendEnv \X UrlEnv : e[2] = <<>> \/ e[1] = <<"opensearch">> }

----------------------------------------------------------------------------
(* Text helpers: str.lower, str.split, `in` *)

LowerChar(c) ==
    CASE c = "A" -> "a"
      [] c = "B" -> "b"
      [] c = "Z" -> "z"
      [] OTHER   -> c

Lower(s) == [i \in 1..Len(s) |-> LowerChar(s[i])]

IsSpace(c) == c = " "

RECURSIVE SplitFrom(_, _, _)
\* words of s from position i on; cur is the word being read
SplitFrom(s, i, cur) ==
    IF i > Len(s)
    THEN IF cur = <<>> THEN <<>> ELSE <<cur>>
    ELSE IF IsSpace(s[i])
         THEN (IF cur = <<>> THEN <<>> ELSE <<cur>>) \o SplitFrom(s, i + 1, <<>>)
         ELSE SplitFrom(s, i + 1, Append(cur, s[i]))

Split(s) == SplitFrom(s, 1, <<>>)

IsSubstring(t, s) ==
    \E i \in 0..(Len(s) - Len(t)) : SubSeq(s, i + 1, i + Len(t)) = t

\* Python's seq[:n]
Slice(seq, n) ==
    IF n >= 0
    THEN SubSeq(seq, 1, Min(n, Len(seq)))
    ELSE SubSeq(seq, 1, Max(Len(seq) + n, 0))

RECURSIVE SelectIndex(_, _, _)
\* first index >= i of seq whose id is id, or 0
SelectIndex(seq, id, i) ==
    IF i > Len(seq) THEN 0
    ELSE IF seq[i].id = id THEN i ELSE SelectIndex(seq, id, i + 1)

IdsOf(seq) == { seq[i].id : i \in 1..Len(seq) }

----------------------------------------------------------------------------
(* Configuration, lines 32-34 *)

LowerName(n) == IF n = "SQLite" THEN "sqlite" ELSE n

GetBackend(env) == IF env = <<>> THEN "memory" ELSE LowerName(env[1])
GetUrl(env)     == IF env = <<>> THEN "" ELSE env[1]

KnownBackends == { "memory", "sqlite", "opensearch" }

----------------------------------------------------------------------------
(* Document id and stored forms *)

HexChar(c) ==
    CASE c = "a" -> "61"
      [] c = "b" -> "62"
      [] c = "B" -> "42"
      [] c = " " -> "20"
      [] OTHER   -> "3f"

\* hashlib.md5(content.encode()).hexdigest(): a digest of the content bytes,
\* taken to be collision free
Md5(content) == <<"md5">> \o [i \in 1..Len(content) |-> HexChar(content[i])]

\* content.encode() on a content that is not a str: AttributeError
DocIdRaises(doc) == doc.id = <<>> /\ ~IsStr(doc.content)

DocIdByMetadata(doc) ==
    IF doc.id # <<>> THEN doc.id
    ELSE Md5(doc.content) \o (IF doc.metadata = NoMeta THEN <<>> ELSE <<"m">>)

\* doc.get("id") or hashlib.md5(doc.get("content", "").encode()).hexdigest()
DocId(doc) == IF doc.id # <<>> THEN doc.id ELSE Md5(doc.content)

\* datetime.utcnow().isoformat(): one symbolic reading of the clock
UtcNowIso == "now"

\* {**doc.get("metadata", {}), "indexed_at": ...}
Stamp(meta) ==
    [k \in (DOMAIN meta) \cup {"indexed_at"} |->
        IF k = "indexed_at" THEN UtcNowIso ELSE meta[k]]

\* json.dumps / json.loads on a metadata mapping
JsonDumps(meta) == [json |-> meta]
JsonLoads(text) == text.json

----------------------------------------------------------------------------
(* In-memory backend, lines 152-187 *)

\* a score is the quotient num / den of two integers, den > 0
ScoreGE(s, t) == s.num * t.den >= t.num * s.den
ScoreEQ(s, t) == s.num * t.den = t.num * s.den

\* sum(1 for term in terms if term in content)
TermsFound(terms, content) ==
    Cardinality({ i \in 1..Len(terms) : IsSubstring(terms[i], content) })

RECURSIVE MemoryHits(_, _, _)
\* the loop of lines 157-167 over the store from position i on
MemoryHits(store, terms, i) ==
    IF i > Len(store) THEN <<>>
    ELSE LET doc     == store[i]
             content == Lower(doc.content)
             score   == TermsFound(terms, content)
         IN  (IF score > 0
              THEN << [id       |-> doc.id,
                       content  |-> doc.content,
                       score    |-> [num |-> score, den |-> Len(terms)],
                       metadata |-> doc.metadata] >>
              ELSE <<>>) \o MemoryHits(store, terms, i + 1)

RECURSIVE InsertDesc(_, _, _)
\* put x into the descending sequence sorted, behind every element that is
\* not smaller than x
InsertDesc(sorted, x, i) ==
    IF i > Len(sorted) THEN Append(sorted, x)
    ELSE IF ScoreGE(sorted[i].score, x.score)
         THEN InsertDesc(sorted, x, i + 1)
         ELSE SubSeq(sorted, 1, i - 1) \o <<x>> \o SubSeq(sorted, i, Len(sorted))

RECURSIVE SortFrom(_, _, _)
SortFrom(results, i, sorted) ==
    IF i > Len(results) THEN sorted
    ELSE SortFrom(results, i + 1, InsertDesc(sorted, results[i], 1))

RECURSIVE InsertDescBefore(_, _, _)
InsertDescBefore(sorted, x, i) ==
    IF i > Len(sorted) THEN Append(sorted, x)
    ELSE IF ScoreGE(x.score, sorted[i].score)
         THEN SubSeq(sorted, 1, i - 1) \o <<x>> \o SubSeq(sorted, i, Len(sorted))
         ELSE InsertDescBefore(sorted, x, i + 1)

RECURSIVE SortFromBefore(_, _, _)
SortFromBefore(results, i, sorted) ==
    IF i > Len(results) THEN sorted
    ELSE SortFromBefore(results, i + 1, InsertDescBefore(sorted, results[i], 1))

\* a descending sort that puts equal scores in reverse order
SortByScoreDescUnstable(results) == SortFromBefore(results, 1, <<>>)

\* results.sort(key=lambda x: x["score"], reverse=True): stable
SortByScoreDesc(results) == SortFrom(results, 1, <<>>)

\* doc.get("content", "").lower() on a stored content that is not a str
SearchMemoryRaises(store) == \E i \in 1..Len(store) : ~IsStr(store[i].content)

\* a search that leaves the query text in its original case
SearchMemoryNoLower(store, query, limit) ==
    Slice(SortByScoreDesc(MemoryHits(store, Split(query), 1)), limit)

search_memory(store, query, limit) ==
    LET query_lower == Lower(query)
        results     == MemoryHits(store, Split(query_lower), 1)
    IN  Slice(SortByScoreDesc(results), limit)

\* a store that keeps the record an id was first given
PutMemoryKeepFirst(store, doc) ==
    IF SelectIndex(store, DocId(doc), 1) = 0
    THEN Append(store, [id |-> DocId(doc), content |-> doc.content,
                        metadata |-> Stamp(doc.metadata)])
    ELSE store

\* _memory_store[doc_id] = {...}: a new key goes to the end of the dict, an
\* existing key keeps its place
PutMemory(store, doc) ==
    LET doc_id == DocId(doc)
        rec    == [id |-> doc_id, content |-> doc.content,
                   metadata |-> Stamp(doc.metadata)]
        i      == SelectIndex(store, doc_id, 1)
    IN  IF i = 0 THEN Append(store, rec) ELSE [store EXCEPT ![i] = rec]

\* the loop body of upsert_memory raises: the id cannot be derived, or
\* **metadata is applied to something that is not a mapping (TypeError)
PutMemoryRaises(doc) == DocIdRaises(doc) \/ ~IsMapping(doc.metadata)

RECURSIVE FirstRaisingFrom(_, _)
\* the index of the first document the loop of upsert_memory raises on, or
\* len(documents) + 1
FirstRaisingFrom(documents, i) ==
    IF i > Len(documents) \/ PutMemoryRaises(documents[i]) THEN i
    ELSE FirstRaisingFrom(documents, i + 1)

\* upsert_memory(documents) does not return
UpsertMemoryRaises(documents) == FirstRaisingFrom(documents, 1) <= Len(documents)

\* the documents the loop stored before it returned or raised
StoredByMemory(documents) == SubSeq(documents, 1, FirstRaisingFrom(documents, 1) - 1)

RECURSIVE UpsertMemoryFrom(_, _, _)
UpsertMemoryFrom(store, documents, i) ==
    IF i > Len(documents) \/ PutMemoryRaises(documents[i]) THEN store
    ELSE UpsertMemoryFrom(PutMemory(store, documents[i]), documents, i + 1)

\* the store after upsert_memory(documents) has returned or raised: the loop
\* keeps what it stored before a document it raises on; the returned count
\* is len(documents)
upsert_memory(store, documents) == UpsertMemoryFrom(store, documents, 1)

----------------------------------------------------------------------------
(* SQLite FTS backend, lines 84-145 *)

\* the words the FTS5 tokenizer (unicode61 under porter) indexes for a text:
\* the characters of the keys and values of the model's metadata; a str
\* given as metadata has no key, its JSON text is the value alone
Chars(word) ==
    CASE word = "indexed_at" -> <<"i", "n", "d", "e", "x", "e", "d", "_", "a", "t">>
      [] word = "user"       -> <<"u", "s", "e", "r">>
      [] word = "now"        -> <<"n", "o", "w">>
      [] word = "x"          -> <<"x">>
      [] OTHER               -> <<>>

\* unicode61 ends a word at every character that is no letter and no digit
IsSeparator(c) == c \in { " ", "_" }

RECURSIVE WordsFrom(_, _, _)
\* the words of s from position i on, in their order; cur is the word being read
WordsFrom(s, i, cur) ==
    IF i > Len(s)
    THEN IF cur = <<>> THEN <<>> ELSE <<cur>>
    ELSE IF IsSeparator(s[i])
         THEN (IF cur = <<>> THEN <<>> ELSE <<cur>>) \o WordsFrom(s, i + 1, <<>>)
         ELSE WordsFrom(s, i + 1, Append(cur, s[i]))

IsVowel(c) == c \in { "a", "e", "i", "o", "u" }

\* tokenize='porter': of the stemmer's rules the one that changes a word of
\* the model is step 1b, which drops -ed after a stem with a vowel
Stem(w) ==
    IF /\ Len(w) > 2
       /\ SubSeq(w, Len(w) - 1, Len(w)) = <<"e", "d">>
       /\ \E i \in 1..(Len(w) - 2) : IsVowel(w[i])
    THEN SubSeq(w, 1, Len(w) - 2)
    ELSE w

\* the tokenizer's output for a text: its lower-cased words, stemmed, in order
TokenSeq(text) ==
    LET words == WordsFrom(Lower(text), 1, <<>>)
    IN  [i \in 1..Len(words) |-> Stem(words[i])]

\* the index terms of a text
Tokens(text) == { TokenSeq(text)[i] : i \in 1..Len(TokenSeq(text)) }

KeyTokens(k) == Tokens(Chars(k))

\* the words of json.dumps(metadata): its keys and its values
MetaTokens(text) ==
    UNION { KeyTokens(k) \cup Tokens(Chars(JsonLoads(text)[k])) :
              k \in DOMAIN JsonLoads(text) }

\* documents_fts indexes all three columns
RowTokens(row) == { row.id } \cup Tokens(row.content) \cup MetaTokens(row.metadata)

\* the token runs of a row, column by column; in the metadata column a key
\* is followed by its value (the model's metadata have one key at most)
RowColumns(row) ==
    { <<row.id>>, TokenSeq(row.content) }
      \cup { TokenSeq(Chars(k)) \o TokenSeq(Chars(JsonLoads(row.metadata)[k])) :
               k \in DOMAIN JsonLoads(row.metadata) }

\* the MATCH operand read as an FTS5 query: bare words, all required
Fts5Terms(query) == Split(Lower(query))

\* fts5 rejects a query without a word ("fts5: syntax error near ...")
Fts5SyntaxError(query) == Fts5Terms(query) = <<>>

\* each bare word goes through the tokenizer and becomes a phrase: its
\* tokens, next to each other and in order within one column; a word that
\* gives no token asks for nothing, and a query of such words matches no row
RowMatches(row, terms) ==
    LET phrases == { TokenSeq(terms[i]) : i \in 1..Len(terms) } \ { <<>> }
    IN  /\ phrases # {}
        /\ \A p \in phrases : \E column \in RowColumns(row) : IsSubstring(p, column)

RECURSIVE MatchingRows(_, _, _)
\* the rows WHERE documents_fts MATCH ?
MatchingRows(rows, terms, i) ==
    IF i > Len(rows) THEN <<>>
    ELSE (IF RowMatches(rows[i], terms) THEN << rows[i] >> ELSE <<>>)
            \o MatchingRows(rows, terms, i + 1)

\* the matching rows, each with the rank the engine computes for it
Ranked(matched, rank) == [i \in 1..Len(matched) |-> [row |-> matched[i], rank |-> rank[i]]]

RECURSIVE InsertByRank(_, _, _)
InsertByRank(sorted, x, i) ==
    IF i > Len(sorted) THEN Append(sorted, x)
    ELSE IF sorted[i].rank <= x.rank
         THEN InsertByRank(sorted, x, i + 1)
         ELSE SubSeq(sorted, 1, i - 1) \o <<x>> \o SubSeq(sorted, i, Len(sorted))

RECURSIVE OrderByRankFrom(_, _, _)
OrderByRankFrom(matched, i, sorted) ==
    IF i > Len(matched) THEN sorted
    ELSE OrderByRankFrom(matched, i + 1, InsertByRank(sorted, matched[i], 1))

\* ORDER BY rank
OrderByRank(matched) == OrderByRankFrom(matched, 1, <<>>)

\* LIMIT ?: a negative operand means no limit
SqlLimit(seq, limit) == IF limit < 0 THEN seq ELSE SubSeq(seq, 1, Min(limit, Len(seq)))

\* a result that passes the engine's rank on as the score
ResultOfRowRawRank(m) ==
    [id       |-> m.row.id,
     content  |-> m.row.content,
     score    |-> [num |-> m.rank, den |-> 1],
     metadata |-> JsonLoads(m.row.metadata)]

\* the result built from one row, lines 118-123
ResultOfRow(m) ==
    [id       |-> m.row.id,
     content  |-> m.row.content,
     score    |-> [num |-> 0 - m.rank, den |-> 1],
     metadata |-> JsonLoads(m.row.metadata)]

\* search_sqlite raises sqlite3.OperationalError
SearchSqliteRaises(table, query) == (~table) \/ Fts5SyntaxError(query)

\* rank[i] is the rank the engine computes for the i-th matching row
search_sqlite(rows, query, limit, rank) ==
    LET matched == MatchingRows(rows, Fts5Terms(query), 1)
        cursor  == SqlLimit(OrderByRank(Ranked(matched, rank)), limit)
    IN  [i \in 1..Len(cursor) |-> ResultOfRow(cursor[i])]

\* DELETE FROM documents_fts WHERE id = ?
DeleteRows(rows, doc_id) == SelectSeq(rows, LAMBDA r : r.id # doc_id)

\* the loop body without the DELETE
PutSqliteNoDelete(rows, doc) ==
    Append(rows, [id |-> DocId(doc), content |-> doc.content,
                  metadata |-> JsonDumps(doc.metadata)])

\* the loop body of lines 133-143
PutSqlite(rows, doc) ==
    Append(DeleteRows(rows, DocId(doc)),
           [id |-> DocId(doc), content |-> doc.content,
            metadata |-> JsonDumps(doc.metadata)])

\* the INSERT cannot bind a content that is not a str, number or bytes
InsertRaises(doc) == ~IsStr(doc.content)

\* a statement of upsert_sqlite raises on some document: the with block is
\* left before conn.commit() and the connection is closed
UpsertSqliteRaises(documents) ==
    \E i \in 1..Len(documents) :
        DocIdRaises(documents[i]) \/ InsertRaises(documents[i])

RECURSIVE UpsertSqliteFrom(_, _, _)
UpsertSqliteFrom(rows, documents, i) ==
    IF i > Len(documents) THEN rows
    ELSE UpsertSqliteFrom(PutSqlite(rows, documents[i]), documents, i + 1)

\* the rows after upsert_sqlite(documents) has committed
upsert_sqlite(rows, documents) == UpsertSqliteFrom(rows, documents, 1)

----------------------------------------------------------------------------
(* History of the upserts that reached a backend *)

RECURSIVE NoteOrderFrom(_, _, _)
NoteOrderFrom(order, documents, i) ==
    IF i > Len(documents) THEN order
    ELSE NoteOrderFrom(
             IF \E j \in 1..Len(order) : order[j] = DocId(documents[i])
             THEN order ELSE Append(order, DocId(documents[i])),
             documents, i + 1)

NoteOrder(order, documents) == NoteOrderFrom(order, documents, 1)

RECURSIVE NoteLastFrom(_, _, _)
NoteLastFrom(last, documents, i) ==
    IF i > Len(documents) THEN last
    ELSE NoteLastFrom(
             [x \in (DOMAIN last) \cup { DocId(documents[i]) } |->
                 IF x = DocId(documents[i])
                 THEN [content  |-> documents[i].content,
                       metadata |-> documents[i].metadata]
                 ELSE last[x]],
             documents, i + 1)

NoteLast(last, documents) == NoteLastFrom(last, documents, 1)

----------------------------------------------------------------------------
(* Request handlers, lines 189-272 *)

NoRequest  == [op |-> "none", query |-> <<>>, limit |-> <<>>, documents |-> <<>>]

\* an answer; served_by names the backend function the handler called
Answer(status, served_by, results, processed, count) ==
    [status              |-> status,
     served_by           |-> served_by,
     backend             |-> SEARCH_BACKEND,
     results             |-> results,
     total               |-> Len(results),
     documents_processed |-> processed,
     document_count      |-> count]

NoResponse == [status |-> 0, served_by |-> "none", backend |-> "", results |-> <<>>,
               total |-> 0, documents_processed |-> 0, document_count |-> 0]

\* the event loop runs one handler at a time: no handler awaits, so each runs
\* from its first line to its return before the next request is taken up
Idle == request = NoRequest

\* request.limit or 10
LimitOr10(limit) == IF limit = <<>> \/ limit[1] = 0 THEN DefaultLimit ELSE limit[1]

\* the branch `SEARCH_BACKEND == "opensearch" and OPENSEARCH_URL`
OpenSearchSelected == SEARCH_BACKEND = "opensearch" /\ OPENSEARCH_URL # ""

\* POST /query
search_documents(query, limit) ==
    /\ Idle
    /\ request' = [op |-> "query", query |-> query, limit |-> limit, documents |-> <<>>]
    /\ IF OpenSearchSelected
       THEN response' = Answer(503, "none", <<>>, 0, 0)
       ELSE IF SEARCH_BACKEND = "sqlite"
       THEN IF SearchSqliteRaises(fts_table, query)
            THEN response' = Answer(500, "sqlite", <<>>, 0, 0)
            ELSE \E rank \in [1..Len(MatchingRows(documents_fts, Fts5Terms(query), 1))
                                  -> RankValues] :
                   response' = Answer(200, "sqlite",
                                      search_sqlite(documents_fts, query, LimitOr10(limit), rank),
                                      0, 0)
       ELSE IF SearchMemoryRaises(memory_store)
            THEN response' = Answer(500, "memory", <<>>, 0, 0)
            ELSE response' = Answer(200, "memory",
                                    search_memory(memory_store, query, LimitOr10(limit)),
                                    0, 0)
    /\ UNCHANGED <<SEARCH_BACKEND, OPENSEARCH_URL, memory_store, fts_table,
                   documents_fts, insert_order, last_upsert>>

\* POST /upsert
upsert_documents(documents) ==
    /\ Idle
    /\ request' = [op |-> "upsert", query |-> <<>>, limit |-> <<>>, documents |-> documents]
    /\ IF OpenSearchSelected
       THEN /\ response' = Answer(503, "none", <<>>, 0, 0)
            /\ UNCHANGED <<memory_store, fts_table, documents_fts, insert_order, last_upsert>>
       ELSE IF SEARCH_BACKEND = "sqlite"
       THEN /\ fts_table' = TRUE
            /\ IF UpsertSqliteRaises(documents)
               THEN /\ response' = Answer(500, "sqlite", <<>>, 0, 0)
                    /\ UNCHANGED <<documents_fts, insert_order, last_upsert>>
               ELSE /\ documents_fts' = upsert_sqlite(documents_fts, documents)
                    /\ response' = Answer(200, "sqlite", <<>>, Len(documents), 0)
                    /\ insert_order' = NoteOrder(insert_order, documents)
                    /\ last_upsert' = NoteLast(last_upsert, documents)
            /\ UNCHANGED memory_store
       ELSE /\ memory_store' = upsert_memory(memory_store, documents)
            /\ response' = IF UpsertMemoryRaises(documents)
                           THEN Answer(500, "memory", <<>>, 0, 0)
                           ELSE Answer(200, "memory", <<>>, Len(documents), 0)
            /\ insert_order' = NoteOrder(insert_order, StoredByMemory(documents))
            /\ last_upsert' = NoteLast(last_upsert, StoredByMemory(documents))
            /\ UNCHANGED <<fts_table, documents_fts>>
    /\ UNCHANGED <<SEARCH_BACKEND, OPENSEARCH_URL>>

\* the document_count that GET /stats reports in the current state
DocumentCount ==
    IF SEARCH_BACKEND = "sqlite"
    THEN (IF fts_table THEN Len(documents_fts) ELSE 0)
    ELSE Len(memory_store)

\* GET /stats
get_stats ==
    /\ Idle
    /\ request' = [op |-> "stats", query |-> <<>>, limit |-> <<>>, documents |-> <<>>]
    /\ response' = Answer(200, IF SEARCH_BACKEND = "sqlite" THEN "sqlite" ELSE "memory",
                          <<>>, 0, DocumentCount)
    /\ UNCHANGED <<SEARCH_BACKEND, OPENSEARCH_URL, memory_store, fts_table,
                   documents_fts, insert_order, last_upsert>>

\* the handler's return (or raise) reaches the caller and the event loop
\* goes on to the next request
Respond ==
    /\ ~Idle
    /\ request' = NoRequest
    /\ response' = NoResponse
    /\ UNCHANGED <<SEARCH_BACKEND, OPENSEARCH_URL, memory_store, fts_table,
                   documents_fts, insert_order, last_upsert>>

----------------------------------------------------------------------------
(* Statement-level execution, lines 84-187 *)

\* the /upsert handler between its statements: documents[i] is the document
\* the loop is at, before is the store when the handler began, in_transaction
\* is conn.in_transaction of its connection, busy tells that its commit gave
\* up waiting for the database file and left its lock on it
NoTask   == [pc |-> "idle", documents |-> <<>>, i |-> 0, before |-> <<>>,
             in_transaction |-> FALSE, busy |-> FALSE]

\* a second request: seen is the store content its read returned from, raised
\* tells that the read raised inside the connection's with block, mid_upsert
\* that the read ran when the upsert had done a part of its writes
NoReader == [pc |-> "idle", op |-> "none", query |-> <<>>, status |-> 0,
             results |-> <<>>, count |-> 0, seen |-> <<>>, raised |-> FALSE,
             mid_upsert |-> FALSE]

\* the documents and queries of the statement-level runs
StepDocs ==
    { [id |-> <<"d", "1">>, content |-> <<"a", " ", "B">>, metadata |-> NoMeta],
      [id |-> <<"d", "1">>, content |-> <<"a", "b">>,      metadata |-> NoMeta],
      [id |-> <<"d", "1">>, content |-> ListContent,       metadata |-> NoMeta],
      [id |-> <<>>,         content |-> ListContent,       metadata |-> NoMeta],
      [id |-> <<>>,         content |-> <<"a", "b">>,      metadata |-> StrMetadata] }

StepBatches == UNION { [1..n -> StepDocs] : n \in 0..MaxBatch }

StepQueries == { <<"a">> }

\* INSERT INTO documents_fts (id, content, metadata) VALUES (?, ?, ?)
InsertRow(rows, doc) ==
    Append(rows, [id |-> DocId(doc), content |-> doc.content,
                  metadata |-> JsonDumps(doc.metadata)])

\* the running upsert's connection has begun a transaction: sqlite3 opens
\* one before the first DELETE and ends it at commit or close
InTransaction == task.in_transaction

\* the second request's SELECT has given a row and its cursor is not read to
\* the end: its connection holds the shared lock of the database file
ReaderHoldsShared ==
    reader.pc = "fetch" /\ (reader.op = "stats" \/ reader.results # <<>>)

\* a SELECT cannot get the shared lock while the upsert's connection has
\* the lock its commit took, waiting or after giving up: when sqlite3's
\* timeout runs out before the lock is given back, the SELECT raises
\* OperationalError "database is locked"
SelectLocked == task.busy

\* the running upsert has done a part of its writes: uncommitted statements
\* on sqlite, some of the batch's assignments in memory
MidUpsert ==
    IF SEARCH_BACKEND = "sqlite"
    THEN InTransaction /\ pending # documents_fts
    ELSE task.pc = "put" /\ task.i > 1 /\ task.i <= Len(task.documents)

\* one connection shared by all operations: a reader sees uncommitted rows
ReaderViewShared(committed, uncommitted, writing) ==
    IF writing THEN uncommitted ELSE committed

\* what a SELECT on a connection of its own reads: sqlite3.connect gives
\* every operation its own connection, which sees committed rows only
ReaderView(committed, uncommitted, writing) == committed

\* a context manager that closes the connection only on the normal path
ConnsAfterExitNoFinally(n, raised) == IF raised THEN n ELSE n - 1

\* try: yield conn / finally: conn.close()
ConnsAfterExit(n, raised) == n - 1

cfgvars  == <<SEARCH_BACKEND, OPENSEARCH_URL>>
histvars == <<insert_order, last_upsert>>

\* POST /upsert arrives and upsert_documents starts
begin_upsert(documents) ==
    /\ request = NoRequest /\ task.pc = "idle"
    /\ request' = [op |-> "upsert", query |-> <<>>, limit |-> <<>>, documents |-> documents]
    /\ IF OpenSearchSelected
       THEN /\ response' = Answer(503, "none", <<>>, 0, 0)
            /\ task' = [NoTask EXCEPT !.pc = "done"]
       ELSE /\ response' = response
            /\ task' = [pc        |-> IF SEARCH_BACKEND = "sqlite" THEN "init_open" ELSE "put",
                        documents |-> documents,
                        i         |-> 1,
                        before    |-> IF SEARCH_BACKEND = "sqlite"
                                      THEN documents_fts ELSE memory_store,
                        in_transaction |-> FALSE,
                        busy           |-> FALSE]
    /\ UNCHANGED <<cfgvars, histvars, memory_store, fts_table, documents_fts,
                   pending, open_conns, reader>>

\* sqlite3.connect in get_sqlite_connection, for init_sqlite_fts and then
\* for the upsert itself
open_connection ==
    /\ task.pc \in { "init_open", "open" }
    /\ open_conns' = open_conns + 1
    /\ pending' = IF task.pc = "open" THEN documents_fts ELSE pending
    /\ task' = [task EXCEPT !.pc =
                  IF task.pc = "init_open" THEN "init_create"
                  ELSE IF Len(task.documents) = 0 THEN "commit" ELSE "delete"]
    /\ UNCHANGED <<cfgvars, histvars, memory_store, fts_table, documents_fts,
                   request, response, reader>>

\* CREATE VIRTUAL TABLE IF NOT EXISTS ... and conn.commit()
create_table ==
    /\ task.pc = "init_create"
    /\ fts_table' = TRUE
    /\ task' = [task EXCEPT !.pc = "init_close"]
    /\ UNCHANGED <<cfgvars, histvars, memory_store, documents_fts, request,
                   response, pending, open_conns, reader>>

\* lines 133-138: the id, the metadata text and the DELETE
delete_statement ==
    /\ task.pc = "delete"
    /\ LET doc == task.documents[task.i]
       IN  IF DocIdRaises(doc)
           THEN /\ task' = [task EXCEPT !.pc = "fail_close"]
                /\ pending' = pending
           ELSE /\ task' = [task EXCEPT !.pc = "insert", !.in_transaction = TRUE]
                /\ pending' = DeleteRows(pending, DocId(doc))
    /\ UNCHANGED <<cfgvars, histvars, memory_store, fts_table, documents_fts,
                   request, response, open_conns, reader>>

\* lines 139-143: the INSERT and count += 1
insert_statement ==
    /\ task.pc = "insert"
    /\ LET doc == task.documents[task.i]
       IN  IF InsertRaises(doc)
           THEN /\ task' = [task EXCEPT !.pc = "fail_close"]
                /\ pending' = pending
           ELSE /\ task' = [task EXCEPT !.i = task.i + 1,
                                        !.pc = IF task.i = Len(task.documents)
                                               THEN "commit" ELSE "delete"]
                /\ pending' = InsertRow(pending, doc)
    /\ UNCHANGED <<cfgvars, histvars, memory_store, fts_table, documents_fts,
                   request, response, open_conns, reader>>

\* conn.commit(), line 144, is called. Without a transaction there is nothing
\* to write. With one, the connection first takes the pending lock of the
\* database file, which locks out every new SELECT, and then waits until the
\* connections that hold the shared lock have read their cursors
commit ==
    /\ task.pc = "commit"
    /\ task' = IF task.in_transaction
               THEN [task EXCEPT !.pc = "commit_wait", !.busy = TRUE]
               ELSE [task EXCEPT !.pc = "close"]
    /\ UNCHANGED <<cfgvars, histvars, memory_store, fts_table, documents_fts,
                   request, response, pending, open_conns, reader>>

\* conn.commit() returns or raises. Once no other connection holds the
\* shared lock the changes are written and the lock is given back. When
\* sqlite3's timeout (5 s) runs out before that, it raises OperationalError
\* "database is locked" and the connection keeps its lock until it is closed
commit_end ==
    /\ task.pc = "commit_wait"
    /\ IF ReaderHoldsShared
       THEN /\ task' = [task EXCEPT !.pc = "fail_close"]
            /\ UNCHANGED <<documents_fts, histvars>>
       ELSE /\ documents_fts' = pending
            /\ insert_order' = NoteOrder(insert_order, task.documents)
            /\ last_upsert' = NoteLast(last_upsert, task.documents)
            /\ task' = [task EXCEPT !.pc = "close", !.in_transaction = FALSE,
                                    !.busy = FALSE]
    /\ UNCHANGED <<cfgvars, memory_store, fts_table, request, response,
                   pending, open_conns, reader>>

\* the with block is left: conn.close() drops what was not committed; after
\* the upsert's own connection the handler returns or raises
close_connection ==
    /\ task.pc \in { "init_close", "close", "fail_close" }
    /\ open_conns' = ConnsAfterExit(open_conns, task.pc = "fail_close")
    /\ pending' = <<>>
    /\ IF task.pc = "init_close"
       THEN /\ task' = [task EXCEPT !.pc = "open"]
            /\ response' = response
       ELSE /\ task' = [task EXCEPT !.pc = "done", !.in_transaction = FALSE,
                                    !.busy = FALSE]
            /\ response' = IF task.pc = "close"
                           THEN Answer(200, "sqlite", <<>>, Len(task.documents), 0)
                           ELSE Answer(500, "sqlite", <<>>, 0, 0)
    /\ UNCHANGED <<cfgvars, histvars, memory_store, fts_table, documents_fts,
                   request, reader>>

\* one round of the loop of upsert_memory, lines 177-186
put_memory ==
    /\ task.pc = "put" /\ task.i <= Len(task.documents)
    /\ LET doc == task.documents[task.i]
       IN  IF PutMemoryRaises(doc)
           THEN /\ task' = [task EXCEPT !.pc = "done"]
                /\ response' = Answer(500, "memory", <<>>, 0, 0)
                /\ UNCHANGED <<memory_store, histvars>>
           ELSE /\ task' = [task EXCEPT !.i = task.i + 1]
                /\ response' = response
                /\ memory_store' = PutMemory(memory_store, doc)
                /\ insert_order' = NoteOrder(insert_order, <<doc>>)
                /\ last_upsert' = NoteLast(last_upsert, <<doc>>)
    /\ UNCHANGED <<cfgvars, fts_table, documents_fts, request, pending,
                   open_conns, reader>>

\* upsert_memory returns count and the handler returns
return_memory ==
    /\ task.pc = "put" /\ task.i > Len(task.documents)
    /\ task' = [task EXCEPT !.pc = "done"]
    /\ response' = Answer(200, "memory", <<>>, Len(task.documents), 0)
    /\ UNCHANGED <<cfgvars, histvars, memory_store, fts_table, documents_fts,
                   request, pending, open_conns, reader>>

\* the answer of the upsert reaches its caller
respond_upsert ==
    /\ task.pc = "done"
    /\ task' = NoTask
    /\ request' = NoRequest
    /\ response' = NoResponse
    /\ UNCHANGED <<cfgvars, histvars, memory_store, fts_table, documents_fts,
                   pending, open_conns, reader>>

\* POST /query or GET /stats arrives while the upsert may be running
begin_read(op, query) ==
    /\ reader.pc = "idle"
    /\ reader' = IF op = "query" /\ OpenSearchSelected
                 THEN [NoReader EXCEPT !.pc = "done", !.op = op, !.query = query,
                                       !.status = 503]
                 ELSE [NoReader EXCEPT !.pc = IF SEARCH_BACKEND = "sqlite"
                                              THEN "open" ELSE "read",
                                       !.op = op, !.query = query]
    /\ UNCHANGED <<cfgvars, histvars, memory_store, fts_table, documents_fts,
                   request, response, task, pending, open_conns>>

\* sqlite3.connect for search_sqlite or for the count of get_stats
reader_open ==
    /\ reader.pc = "open"
    /\ open_conns' = open_conns + 1
    /\ reader' = [reader EXCEPT !.pc = "select"]
    /\ UNCHANGED <<cfgvars, histvars, memory_store, fts_table, documents_fts,
                   request, response, task, pending>>

\* conn.execute of the SELECT of search_sqlite (lines 109-115) or of
\* get_stats (line 265); get_stats answers 0 when it raises (line 267)
reader_select ==
    /\ reader.pc = "select"
    /\ LET view == ReaderView(documents_fts, pending, InTransaction)
       IN  IF reader.op = "query"
           THEN IF SearchSqliteRaises(fts_table, reader.query) \/ SelectLocked
                THEN reader' = [reader EXCEPT !.pc = "close", !.status = 500,
                                              !.raised = TRUE,
                                              !.mid_upsert = MidUpsert]
                ELSE \E rank \in [1..Len(MatchingRows(view, Fts5Terms(reader.query), 1))
                                      -> RankValues] :
                       reader' = [reader EXCEPT
                                     !.pc = "fetch", !.status = 200, !.seen = view,
                                     !.mid_upsert = MidUpsert,
                                     !.results = search_sqlite(view, reader.query,
                                                               DefaultLimit, rank)]
           ELSE IF ~fts_table \/ SelectLocked
                THEN reader' = [reader EXCEPT !.pc = "close", !.status = 200,
                                              !.raised = TRUE,
                                              !.mid_upsert = MidUpsert,
                                              !.count = 0]
                ELSE reader' = [reader EXCEPT !.pc = "fetch", !.status = 200,
                                              !.seen = view, !.count = Len(view),
                                              !.mid_upsert = MidUpsert]
    /\ UNCHANGED <<cfgvars, histvars, memory_store, fts_table, documents_fts,
                   request, response, task, pending, open_conns>>

\* the cursor is read to its end (lines 117-124, line 266), which gives the
\* shared lock back
reader_fetch ==
    /\ reader.pc = "fetch"
    /\ reader' = [reader EXCEPT !.pc = "close"]
    /\ UNCHANGED <<cfgvars, histvars, memory_store, fts_table, documents_fts,
                   request, response, task, pending, open_conns>>

\* the reader's with block is left
reader_close ==
    /\ reader.pc = "close"
    /\ open_conns' = ConnsAfterExit(open_conns, reader.raised)
    /\ reader' = [reader EXCEPT !.pc = "done"]
    /\ UNCHANGED <<cfgvars, histvars, memory_store, fts_table, documents_fts,
                   request, response, task, pending>>

\* search_memory (lines 152-171) or len(_memory_store) (line 270)
reader_read ==
    /\ reader.pc = "read"
    /\ reader' = IF reader.op = "query"
                 THEN IF SearchMemoryRaises(memory_store)
                      THEN [reader EXCEPT !.pc = "done", !.status = 500,
                                          !.raised = TRUE,
                                          !.mid_upsert = MidUpsert]
                      ELSE [reader EXCEPT !.pc = "done", !.status = 200,
                                          !.seen = memory_store, !.mid_upsert = MidUpsert,
                                          !.results = search_memory(memory_store,
                                                          reader.query, DefaultLimit)]
                 ELSE [reader EXCEPT !.pc = "done", !.status = 200,
                                     !.seen = memory_store, !.mid_upsert = MidUpsert,
                                     !.count = Len(memory_store)]
    /\ UNCHANGED <<cfgvars, histvars, memory_store, fts_table, documents_fts,
                   request, response, task, pending, open_conns>>

\* the answer of the second request reaches its caller
reader_respond ==
    /\ reader.pc = "done"
    /\ reader' = NoReader
    /\ UNCHANGED <<cfgvars, histvars, memory_store, fts_table, documents_fts,
                   request, response, task, pending, open_conns>>

----------------------------------------------------------------------------
(* The service *)

Init ==
    /\ \E env \in Environments :
          /\ SEARCH_BACKEND = GetBackend(env[1])
          /\ OPENSEARCH_URL = GetUrl(env[2])
    /\ memory_store = <<>>
    /\ fts_table = FALSE
    /\ documents_fts = <<>>
    /\ request = NoRequest
    /\ response = NoResponse
    /\ insert_order = <<>>
    /\ last_upsert = <<>>
    /\ task = NoTask
    /\ pending = <<>>
    /\ open_conns = 0
    /\ reader = NoReader

\* every handler runs from its first line to its return in one step
Next ==
    \/ (\E query \in Queries, limit \in Limits : search_documents(query, limit))
          /\ UNCHANGED stepvars
    \/ (\E documents \in Batches : upsert_documents(documents)) /\ UNCHANGED stepvars
    \/ get_stats /\ UNCHANGED stepvars
    \/ Respond /\ UNCHANGED stepvars

Spec == Init /\ [][Next]_vars

\* the same service with the upsert taken statement by statement and a second
\* request placed anywhere between its statements
NextSteps ==
    \/ \E documents \in StepBatches : begin_upsert(documents)
    \/ open_connection
    \/ create_table
    \/ delete_statement
    \/ insert_statement
    \/ commit
    \/ commit_end
    \/ close_connection
    \/ put_memory
    \/ return_memory
    \/ respond_upsert
    \/ \E op \in { "query", "stats" }, query \in StepQueries : begin_read(op, query)
    \/ reader_open
    \/ reader_select
    \/ reader_fetch
    \/ reader_close
    \/ reader_read
    \/ reader_respond

SpecSteps == Init /\ [][NextSteps]_vars

----------------------------------------------------------------------------
(* Vocabulary of the properties *)

IsQuery  == request.op = "query"
IsUpsert == request.op = "upsert"
Served   == response.status = 200
Local    == response.served_by \in { "memory", "sqlite" }

\* the records of the backend that serves this configuration
StoreRows == IF SEARCH_BACKEND = "sqlite" THEN documents_fts ELSE memory_store

\* the metadata mapping a stored record gives back to a reader
StoredMeta(rec) ==
    IF SEARCH_BACKEND = "sqlite" THEN JsonLoads(rec.metadata) ELSE rec.metadata

CountOf(rows, id) == Cardinality({ i \in 1..Len(rows) : rows[i].id = id })

Position(order, id) == CHOOSE i \in 1..Len(order) : order[i] = id

\* the limit of section 4.5: 10 when absent, raised to 0 when negative
LimitClamped(limit) == IF limit = <<>> THEN DefaultLimit ELSE Max(limit[1], 0)

SameDocs(documents) ==
    \A i \in 1..Len(documents) : documents[i] = documents[1]

----------------------------------------------------------------------------
(* C1 *)

\* C1: with SEARCH_BACKEND=opensearch and no OPENSEARCH_URL, every /query
\* and every /upsert ends in backend_unavailable (503) and is served by
\* neither the in-memory nor the persistent backend.
C1_UnconfiguredRemoteUnavailable ==
    (SEARCH_BACKEND = "opensearch" /\ OPENSEARCH_URL = "" /\ (IsQuery \/ IsUpsert))
        => (response.status = 503 /\ response.served_by = "none")

----------------------------------------------------------------------------
(* C2 *)

\* C2: on the memory and persistent backends a /query returns at most
\* `limit` results, where a limit below 0 counts as 0 and an absent limit as
\* 10; limit=0 returns results=[] and total=0.
C2_LimitInvariant ==
    (IsQuery /\ Local /\ Served)
        => /\ Len(response.results) <= LimitClamped(request.limit)
           /\ (request.limit = <<0>> => (response.results = <<>> /\ response.total = 0))

----------------------------------------------------------------------------
(* C3 *)

\* C3: on the memory and persistent backends a query against an empty store
\* (also a database whose table was never created) and a query with the
\* empty text return results=[] and total=0 and do not end in an error.
C3_EmptySafety ==
    (IsQuery /\ Local /\ (StoreRows = <<>> \/ request.query = <<>>))
        => (Served /\ response.results = <<>> /\ response.total = 0)

----------------------------------------------------------------------------
(* C4 *)

\* C4: an /upsert on a local backend whose documents are N >= 1 copies of
\* one document raises document_count by exactly 1 when the document's id is
\* not yet stored and leaves it unchanged when the id is stored already (the
\* later calls of a repetition), and reports N as documents_processed.
C4_UpsertIdempotent ==
    [][ (request'.op = "upsert" /\ response'.served_by \in { "memory", "sqlite" }
         /\ Len(request'.documents) >= 1 /\ SameDocs(request'.documents))
        => LET d == request'.documents[1]
               id == IF d.id # <<>> THEN d.id ELSE Md5(d.content)
           IN  /\ DocumentCount' = DocumentCount + (IF id \in IdsOf(StoreRows) THEN 0 ELSE 1)
               /\ response'.documents_processed = Len(request'.documents)
               /\ response'.status = 200 ]_vars

\* two copies of one document went into an empty persistent store in one
\* batch and document_count is 1
C4_Witness ==
    /\ IsUpsert /\ response.served_by = "sqlite"
    /\ Len(request.documents) >= 2 /\ SameDocs(request.documents)
    /\ response.documents_processed = Len(request.documents)
    /\ DocumentCount = 1

----------------------------------------------------------------------------
(* C5 *)

\* C5: a document upserted without an id is stored under an id that depends
\* on its content alone (the digest of the content): documents without id
\* and with the same content, whatever their metadata, share one stored
\* record, and a batch made only of such documents raises document_count by
\* 1 if that id was not stored before and by 0 if it was.
C5_DerivedIdCollapses ==
    [][ (request'.op = "upsert" /\ response'.served_by \in { "memory", "sqlite" })
        => LET docs == request'.documents
           IN  /\ \A i \in 1..Len(docs) :
                     docs[i].id = <<>> => CountOf(StoreRows', Md5(docs[i].content)) = 1
               /\ (/\ Len(docs) >= 1
                   /\ \A i \in 1..Len(docs) :
                         docs[i].id = <<>> /\ docs[i].content = docs[1].content)
                  => DocumentCount' = DocumentCount
                        + (IF Md5(docs[1].content) \in IdsOf(StoreRows) THEN 0 ELSE 1) ]_vars

\* two documents without id, with the same content and different metadata,
\* arrived in one batch and the store holds one record
C5_Witness ==
    /\ IsUpsert /\ Local /\ Len(request.documents) = 2
    /\ request.documents[1].id = <<>> /\ request.documents[2].id = <<>>
    /\ request.documents[1].content = request.documents[2].content
    /\ request.documents[1].metadata # request.documents[2].metadata
    /\ DocumentCount = 1

----------------------------------------------------------------------------
(* C6 *)

\* C6 as stated: the store holds exactly one record per upserted id, that
\* record has the content of the last upsert of the id and every metadata
\* entry of that upsert, and document_count is the number of distinct ids
\* ever upserted.
C6_LastWriteWins_AsStated ==
    /\ \A id \in DOMAIN last_upsert :
          /\ CountOf(StoreRows, id) = 1
          /\ LET rec == StoreRows[SelectIndex(StoreRows, id, 1)]
             IN  /\ rec.content = last_upsert[id].content
                 /\ \A k \in DOMAIN last_upsert[id].metadata :
                       /\ k \in DOMAIN StoredMeta(rec)
                       /\ StoredMeta(rec)[k] = last_upsert[id].metadata[k]
    /\ IdsOf(StoreRows) = DOMAIN last_upsert
    /\ DocumentCount = Cardinality(DOMAIN last_upsert)

\* C6 amended: as above, except that the in-memory backend sets the metadata
\* entry indexed_at to the time of indexing, in place of an indexed_at entry
\* the caller sent; every other entry is the caller's, and the persistent
\* backend stores the caller's metadata unchanged.
C6_LastWriteWins ==
    /\ \A id \in DOMAIN last_upsert :
          /\ CountOf(StoreRows, id) = 1
          /\ LET rec == StoreRows[SelectIndex(StoreRows, id, 1)]
                 sent == last_upsert[id].metadata
             IN  /\ rec.content = last_upsert[id].content
                 /\ IF SEARCH_BACKEND = "sqlite"
                    THEN StoredMeta(rec) = sent
                    ELSE /\ DOMAIN StoredMeta(rec) = (DOMAIN sent) \cup { "indexed_at" }
                         /\ StoredMeta(rec)["indexed_at"] = UtcNowIso
                         /\ \A k \in (DOMAIN sent) \ { "indexed_at" } :
                               StoredMeta(rec)[k] = sent[k]
    /\ IdsOf(StoreRows) = DOMAIN last_upsert
    /\ DocumentCount = Cardinality(DOMAIN last_upsert)

\* one batch upserted the same explicit id twice with different content and
\* the store holds the second
C6_Witness ==
    /\ IsUpsert /\ Local /\ Len(request.documents) = 2
    /\ request.documents[1].id # <<>>
    /\ request.documents[1].id = request.documents[2].id
    /\ request.documents[1].content # request.documents[2].content
    /\ CountOf(StoreRows, request.documents[1].id) = 1
    /\ StoreRows[SelectIndex(StoreRows, request.documents[1].id, 1)].content
          = request.documents[2].content

----------------------------------------------------------------------------
(* C7 *)

\* C7: in every result sequence a query returns, on any backend, the scores
\* do not increase along the sequence.
C7_ScoresNonIncreasing ==
    (IsQuery /\ Served)
        => \A i \in 1..(Len(response.results) - 1) :
              ScoreGE(response.results[i].score, response.results[i + 1].score)

\* the persistent backend returned two results with different scores
C7_Witness ==
    /\ IsQuery /\ Served /\ response.served_by = "sqlite"
    /\ Len(response.results) >= 2
    /\ ~ScoreEQ(response.results[1].score, response.results[2].score)

----------------------------------------------------------------------------
(* C8 *)

\* C8: under a backend name that is none of memory, sqlite, opensearch the
\* service does not come up: no /query, /upsert or /stats request is served.
C8_UnknownBackendFailsAtBoot ==
    (SEARCH_BACKEND \notin KnownBackends) => (request = NoRequest /\ response = NoResponse)

----------------------------------------------------------------------------
(* C9 *)

\* the score of section 4.2: matched query terms over all query terms
TermScore(query, content) ==
    LET terms == Split(Lower(query))
    IN  [num |-> Cardinality({ i \in 1..Len(terms) :
                                  IsSubstring(terms[i], Lower(content)) }),
         den |-> Len(terms)]

\* C9: a result of the in-memory backend is a stored document whose score is
\* the number of query terms found in its lower-cased content over the number
\* of query terms, and lies in (0, 1]; a stored document with a score above 0
\* is missing from the results only when the results have reached the limit.
C9_MemoryScore ==
    (IsQuery /\ Served /\ response.served_by = "memory")
        => LET res == response.results
           IN  /\ \A i \in 1..Len(res) :
                     /\ CountOf(res, res[i].id) = 1
                     /\ \E j \in 1..Len(memory_store) :
                           /\ memory_store[j].id = res[i].id
                           /\ memory_store[j].content = res[i].content
                           /\ res[i].score = TermScore(request.query, memory_store[j].content)
                     /\ res[i].score.num > 0
                     /\ res[i].score.num <= res[i].score.den
               /\ (\E j \in 1..Len(memory_store) :
                      /\ TermScore(request.query, memory_store[j].content).num > 0
                      /\ memory_store[j].id \notin IdsOf(res))
                  => Len(res) >= LimitClamped(request.limit)

\* a query of two terms in mixed case found one document with both terms and
\* one, with content in mixed case, with a single term
C9_Witness ==
    /\ IsQuery /\ Served /\ response.served_by = "memory"
    /\ request.query # Lower(request.query)
    /\ \E i \in 1..Len(response.results) :
          response.results[i].score.num = response.results[i].score.den
    /\ \E i \in 1..Len(response.results) :
          /\ response.results[i].score.num < response.results[i].score.den
          /\ response.results[i].content # Lower(response.results[i].content)

----------------------------------------------------------------------------
(* C10 *)

\* C10: in the results of the in-memory backend, documents with equal score
\* stand in the order in which their ids were first upserted.
C10_TiesInInsertionOrder ==
    (IsQuery /\ Served /\ response.served_by = "memory")
        => \A i, j \in 1..Len(response.results) :
              (i < j /\ ScoreEQ(response.results[i].score, response.results[j].score))
                 => Position(insert_order, response.results[i].id)
                       < Position(insert_order, response.results[j].id)

\* three documents tie
C10_Witness ==
    /\ IsQuery /\ Served /\ response.served_by = "memory"
    /\ Len(response.results) = 3
    /\ ScoreEQ(response.results[1].score, response.results[3].score)

----------------------------------------------------------------------------
(* C11 *)

\* a document UpsertRequest lets through although its content is not a
\* string or its metadata is not a mapping
Malformed(doc) == ~IsStr(doc.content) \/ ~IsMapping(doc.metadata)

HasMalformed(documents) == \E i \in 1..Len(documents) : Malformed(documents[i])

\* the upsert handler has returned or raised and its answer is not yet sent
UpsertFinished == IsUpsert /\ task.pc = "done" /\ response.backend # "opensearch"

\* C11: an upsert request that holds a malformed document (content not a
\* string, or metadata not a mapping) is rejected as a validation failure
\* before any backend call, so the store is what it was when the request
\* arrived, well-formed documents earlier in the batch included, and a later
\* query does not fail because of it.
C11_MalformedRejected ==
    (UpsertFinished /\ HasMalformed(request.documents)) =>
        /\ response.status \notin { 200, 500 }
        /\ response.served_by = "none"
        /\ StoreRows = task.before
        /\ (SEARCH_BACKEND # "sqlite" => ~SearchMemoryRaises(memory_store))

----------------------------------------------------------------------------
(* C12 *)

\* the record an upsert of doc leaves in the store of this configuration
Written(doc) ==
    IF SEARCH_BACKEND = "sqlite" THEN InsertRow(<<>>, doc)[1]
                                 ELSE PutMemory(<<>>, doc)[1]

\* doc gets through the loop body of the serving backend and is stored as id
WritesId(doc, id) ==
    /\ ~DocIdRaises(doc)
    /\ IF SEARCH_BACKEND = "sqlite" THEN ~InsertRaises(doc) ELSE ~PutMemoryRaises(doc)
    /\ DocId(doc) = id

RecordOf(rows, id) == rows[SelectIndex(rows, id, 1)]

\* the second request reads the store in this step
ReadStep ==
    reader.pc \in { "select", "read" } /\ reader'.pc \in { "fetch", "close", "done" }

UpsertRunning == task.pc \notin { "idle", "done" }

\* the records the answer rests on are records of rows
ResultsFrom(results, rows) ==
    \A i \in 1..Len(results) :
        \E j \in 1..Len(rows) : /\ rows[j].id = results[i].id
                                /\ rows[j].content = results[i].content

----------------------------------------------------------------------------
(* C13 *)

\* connections the upsert and the second request hold at their position
WriterHolds ==
    IF task.pc \in { "init_create", "init_close", "delete", "insert", "commit",
                     "commit_wait", "close", "fail_close" } THEN 1 ELSE 0

ReaderHolds == IF reader.pc \in { "select", "fetch", "close" } THEN 1 ELSE 0

\* the upsert on the persistent backend ended with a failing statement
UpsertFailed ==
    /\ SEARCH_BACKEND = "sqlite" /\ IsUpsert /\ task.pc = "done"
    /\ response.status = 500

\* C13: every operation of the persistent backend (table initialisation,
\* search, upsert, stats) closes the connection it opened on every exit
\* path: the open connections are exactly those of the operations now inside
\* their with block, so there is none when no operation is in progress, and
\* a failing statement inside an upsert batch closes the connection without
\* a commit, so the table holds what it held before the batch; until the
\* commit has returned the table holds nothing of the batch.
C13_ConnectionsReleased ==
    /\ open_conns = WriterHolds + ReaderHolds
    /\ (task.pc \in { "idle", "done" } /\ reader.pc \in { "idle", "done" })
          => open_conns = 0
    /\ UpsertFailed => (documents_fts = task.before /\ pending = <<>>)
    /\ task.pc \in { "delete", "insert", "commit", "commit_wait", "fail_close" }
          => documents_fts = task.before

\* the second document of a batch failed after the first had replaced the
\* stored d1 inside the transaction: nothing of it is kept, no connection left
C13_Witness ==
    /\ UpsertFailed
    /\ reader.pc = "idle" /\ open_conns = 0
    /\ Len(task.documents) = 2 /\ task.i = 2
    /\ CountOf(task.before, <<"d", "1">>) = 1
    /\ WritesId(task.documents[1], <<"d", "1">>)
    /\ Written(task.documents[1]) # RecordOf(task.before, <<"d", "1">>)
    /\ documents_fts = task.before

====
